---- MODULE Spec2Model ----
(***************************************************************************)
(* package-tracker.py: one run of main() loads settings.json and log.json, *)
(* polls the carrier once for every tracking number, merges each snapshot  *)
(* into the number's log entry, writes both files back and mails the       *)
(* digest of new events.  Runs follow one another (cron); between two runs *)
(* the operator may edit settings.json.                                    *)
(***************************************************************************)
EXTENDS Integers, Sequences, FiniteSets, TLC

\* Bounds of the model.
MaxT == 2        \* carrier dates are the minutes 1..MaxT
MaxRows == 2     \* data rows of one tracking page
MaxRuns == 2     \* runs of main(), one per clock minute

Numbers == {"A1", "B2", "C3", "D4"}
Dates == 1..MaxT

----------------------------------------------------------------------------
\* Python values.  A datetime is its minute; the text strftime makes of it
\* is <<"str", minute>>; None is PyNone.
PyNone == <<"None", 0>>

\* datetime.strftime(TIMESTAMP_FORMAT)
strftime(t) == <<"str", t>>

\* A persisted text that does not match TIMESTAMP_FORMAT.
Garbled == <<"str", 0>>

\* datetime.strptime(s, TIMESTAMP_FORMAT): TypeError when s is not a str,
\* ValueError when the text does not match the format.
strptime(s) ==
    IF s = PyNone THEN [raise |-> "TypeError", value |-> 0]
    ELSE IF s[2] \in Dates THEN [raise |-> "", value |-> s[2]]
    ELSE [raise |-> "ValueError", value |-> 0]

\* str.capitalize() on the texts the model uses.
capitalize(s) ==
    CASE s = "ENVIO ENTREGADO" -> "Envio entregado"
      [] s = "EN TRANSITO" -> "En transito"
      [] s = "PLANTA CEP" -> "Planta cep"
      [] OTHER -> s

\* A dict that is iterated (the snapshot) is the sequence of its
\* <<key, value>> items in insertion order.
DictKeys(d) == {d[i][1] : i \in DOMAIN d}

DictSet(d, k, v) ==
    IF k \in DictKeys(d)
    THEN [i \in DOMAIN d |-> IF d[i][1] = k THEN <<k, v>> ELSE d[i]]
    ELSE Append(d, <<k, v>>)

\* max(updates.keys())
MaxKey(d) == CHOOSE k \in DictKeys(d) : \A j \in DictKeys(d) : j <= k

\* list.remove(x): drops the first occurrence.
RECURSIVE ListRemove(_, _)
ListRemove(l, x) ==
    IF l = <<>> THEN <<>>
    ELSE IF Head(l) = x THEN Tail(l)
    ELSE <<Head(l)>> \o ListRemove(Tail(l), x)

\* defaultdict(list)[k].append(item)
DefaultAppend(dd, k, item) ==
    IF k \in DOMAIN dd THEN [dd EXCEPT ![k] = Append(@, item)]
    ELSE (k :> <<item>>) @@ dd

----------------------------------------------------------------------------
\* The carrier's answer to one request.  A <tr> is the tuple of its <td>
\* texts: the header row has none, a data row has status, date, location.
\* Date 0 stands for a text that does not match '%d/%m/%Y %H:%M'.
HeaderRow == <<>>
DataRows == {<<s, d, "PLANTA CEP">> : s \in {"EN TRANSITO", "ENVIO ENTREGADO"}, d \in Dates}
BadDateRow == <<"EN TRANSITO", 0, "PLANTA CEP">>

RowSeqs == UNION {[1..k -> DataRows] : k \in 0..MaxRows}

Page(rs) == [error |-> FALSE, table |-> TRUE, rows |-> <<HeaderRow>> \o rs]

\* What the carrier may answer: the request fails, the page has no table, a
\* row's date is malformed, or the page lists the parcel's history.
Failures ==
    {[error |-> TRUE, table |-> FALSE, rows |-> <<>>],
     [error |-> FALSE, table |-> FALSE, rows |-> <<>>],
     Page(<<BadDateRow>>)}

\* The history of parcel A1 is any sequence of up to MaxRows rows; the
\* history of every other parcel is bounded to one event, at date 1.
LongResponses == Failures \cup {Page(rs) : rs \in RowSeqs}
ShortResponses == Failures \cup {Page(<<r>>) : r \in {x \in DataRows : x[2] = 1}}

\* The loop of track_correoschile over the rows of the table.
RECURSIVE ScanRows(_, _)
ScanRows(rows, info) ==
    IF rows = <<>> \/ info.raise # "" THEN info
    ELSE LET values == Head(rows) IN
         IF Len(values) # 3 THEN ScanRows(Tail(rows), info)
         ELSE IF values[2] \notin Dates
              THEN [info EXCEPT !.raise = "ValueError"]
              ELSE LET status == capitalize(values[1])
                       location == capitalize(values[3])
                   IN ScanRows(Tail(rows),
                        [info EXCEPT
                           !.updates = DictSet(@, values[2],
                                          [status |-> status, location |-> location]),
                           !.delivered = @ \/ status = "Envio entregado"])

track_correoschile(resp) ==
    LET tracking_info == [raise |-> "", updates |-> <<>>, delivered |-> FALSE] IN
    IF resp.error THEN [tracking_info EXCEPT !.raise = "RequestException"]
    ELSE IF ~resp.table THEN tracking_info
    ELSE ScanRows(resp.rows, tracking_info)

\* The tracking_info (or the exception) main gets for a number.
LongSnapshots == {track_correoschile(resp) : resp \in LongResponses}
ShortSnapshots == {track_correoschile(resp) : resp \in ShortResponses}
Snapshots(number) == IF number = "A1" THEN LongSnapshots ELSE ShortSnapshots

----------------------------------------------------------------------------
VARIABLES
    settings_file,     \* settings.json on disk: "ok", "missing" or "corrupt"
    settings_json,     \* its content
    log_file,          \* log.json on disk: "ok", "missing" or "corrupt"
    log_json,          \* its content
    pc,                \* where main() is
    now,               \* the clock, one minute per run
    settings,          \* main's settings
    tracking_log,      \* main's tracking_log
    tracking_updates,  \* main's tracking_updates (the digest)
    batch,             \* the copy settings['tracking_numbers'][:] being iterated
    idx,               \* position of the loop in batch
    outcome,           \* how the last run ended
    polls,             \* history: the iterations of this run's loop, in order
    origin,            \* history: per number, the snapshot its entry in log.json was last merged from
    notified           \* history: per number, the timestamps of the digests earlier runs dispatched

vars == <<settings_file, settings_json, log_file, log_json, pc, now, settings,
          tracking_log, tracking_updates, batch, idx, outcome, polls, origin,
          notified>>

disk == <<settings_file, settings_json, log_file, log_json>>
memory == <<settings, tracking_log, tracking_updates, batch, idx>>

NoSettings == [tracking_numbers |-> <<>>, autoremove |-> FALSE, alert |-> FALSE]

\* The entry main creates for a number that is not in the log.
NewEntry == [last_check |-> PyNone, last_update |-> PyNone,
             delivered |-> FALSE, updates |-> <<>>]

\* A log.json whose entry of A1 carries a last_update that is not a timestamp.
GarbledLog == "A1" :> [last_check |-> Garbled, last_update |-> Garbled,
                       delivered |-> FALSE, updates |-> <<>>]

\* The files before the first run.  settings.json tracks either parcel A1
\* alone or the three parcels B2, C3, D4; log.json is absent, unreadable,
\* empty, or holds the garbled entry of A1.
Init ==
    /\ settings_file \in {"ok", "missing", "corrupt"}
    /\ \E tn \in {<<"A1">>, <<"B2", "C3", "D4">>}, ar \in BOOLEAN, al \in BOOLEAN :
         settings_json = IF settings_file = "ok"
                         THEN [tracking_numbers |-> tn, autoremove |-> ar, alert |-> al]
                         ELSE NoSettings
    /\ log_file \in {"ok", "missing", "corrupt"}
    /\ log_json \in IF log_file = "ok" /\ settings_json.tracking_numbers = <<"A1">>
                    THEN {<<>>, GarbledLog} ELSE {<<>>}
    /\ pc = "idle"
    /\ now = 0
    /\ settings = NoSettings
    /\ tracking_log = <<>>
    /\ tracking_updates = <<>>
    /\ batch = <<>>
    /\ idx = 1
    /\ outcome = "none"
    /\ polls = <<>>
    /\ origin = <<>>
    /\ notified = [n \in Numbers |-> {}]

----------------------------------------------------------------------------
\* One iteration of the loop of main, statement by statement.

\* lines 113-120: the entry of number, created when the log has none.
WithEntry(log, number) ==
    IF number \in DOMAIN log THEN log ELSE (number :> NewEntry) @@ log

\* line 130: entry['delivered'] = tracking_info['delivered']
DeliveredAfter(entry, tracking_info) == tracking_info.delivered

\* Mutant of Finished: autoremove is not looked at.
FinishedWhenDelivered(entry, s) == entry.delivered

\* line 131: the condition of the "finished tracking" branch
Finished(entry, s) == entry.delivered /\ s.autoremove

\* Mutant of RemoveNumber: the list is left as it is.
RemoveNumberKept(s, number) == s

\* line 134: settings['tracking_numbers'].remove(number)
RemoveNumber(s, number) ==
    [s EXCEPT !.tracking_numbers = ListRemove(@, number)]

\* lines 140-144: the watermark, None when strptime raises TypeError.
Watermark(entry) ==
    LET p == strptime(entry.last_update) IN
    IF p.raise = "TypeError" THEN [raise |-> "", none |-> TRUE, value |-> 0]
    ELSE [raise |-> p.raise, none |-> FALSE, value |-> p.value]

\* Mutant of IsNew: >= for >.
IsNewOrEqual(x, last_update) == last_update.none \/ x >= last_update.value

\* line 147: last_update is None or x > last_update
IsNew(x, last_update) == last_update.none \/ x > last_update.value

\* lines 146-148: the (x, status) items appended to tracking_updates[number]
NewUpdates(updates, last_update) ==
    LET Test(item) == IsNew(item[1], last_update)
        sel == SelectSeq(updates, Test)
    IN [i \in DOMAIN sel |-> <<sel[i][1], sel[i][2].status>>]

Extend(dd, k, items) ==
    IF items = <<>> THEN dd
    ELSE IF k \in DOMAIN dd THEN [dd EXCEPT ![k] = @ \o items]
    ELSE (k :> items) @@ dd

\* Mutant of MergeUpdates: the entry keeps only the events of the snapshot.
MergeUpdatesReplace(old, updates) ==
    LET fresh == {strftime(k) : k \in DictKeys(updates)}
    IN [key \in fresh |->
          LET i == CHOOSE j \in DOMAIN updates : strftime(updates[j][1]) = key
          IN updates[i][2]]

\* lines 151-152: entry['updates'].update({x.strftime(...): updates[x]})
MergeUpdates(old, updates) ==
    LET fresh == {strftime(k) : k \in DictKeys(updates)}
        At(key) == LET i == CHOOSE j \in DOMAIN updates : strftime(updates[j][1]) = key
                   IN updates[i][2]
    IN [key \in (DOMAIN old) \cup fresh |->
          IF key \in fresh THEN At(key) ELSE old[key]]

\* Mutant of LastUpdateAfter: min for max.
LastUpdateAfterMin(entry, updates) ==
    strftime(CHOOSE k \in DictKeys(updates) : \A j \in DictKeys(updates) : k <= j)

\* Mutant of LastUpdateAfter: last_update is left as it was.
LastUpdateAfterKept(entry, updates) == entry.last_update

\* Mutant of LastUpdateAfter: the latest timestamp of the entry's events and
\* the snapshot's together.
LastUpdateAfterMerged(entry, updates) ==
    LET all == {k[2] : k \in DOMAIN entry.updates} \cup DictKeys(updates)
    IN strftime(CHOOSE k \in all : \A j \in all : j <= k)

\* line 153
LastUpdateAfter(entry, updates) == strftime(MaxKey(updates))

\* lines 112-153 for one number and the tracking_info of line 123: the values of
\* settings, tracking_log and tracking_updates after the iteration, the
\* exception that ended it ("" when none), and the items it reported.
Iteration(number, info, s, log, digest, clock) ==
    LET log1 == WithEntry(log, number)
        updates == info.updates
        e1 == [log1[number] EXCEPT !.last_check = strftime(clock)]
        e2 == [e1 EXCEPT !.delivered = DeliveredAfter(e1, info)]
        fin == Finished(e2, s)
        digest1 == IF fin THEN DefaultAppend(digest, "System", <<clock, number>>)
                   ELSE digest
        s1 == IF fin THEN RemoveNumber(s, number) ELSE s
        last_update == Watermark(e2)
        new == NewUpdates(updates, last_update)
        e3 == [e2 EXCEPT !.updates = MergeUpdates(@, updates),
                         !.last_update = LastUpdateAfter(e2, updates)]
        base == [raise |-> "", at |-> "", settings |-> s1, digest |-> digest1,
                 tracking_log |-> [log1 EXCEPT ![number] = e2],
                 new |-> <<>>, finished |-> fin,
                 updates |-> updates, delivered |-> info.delivered]
    IN IF info.raise # ""
       THEN [base EXCEPT !.raise = info.raise, !.at = "track_correoschile"]
       ELSE IF Len(updates) = 0 THEN base
       ELSE IF last_update.raise # ""
       THEN [base EXCEPT !.raise = last_update.raise, !.at = "last_update"]
       ELSE [base EXCEPT !.digest = Extend(digest1, number, new),
                         !.tracking_log = [log1 EXCEPT ![number] = e3],
                         !.new = new]

----------------------------------------------------------------------------
\* Mutant of Load: a run starts whatever the state of the two files, with the
\* content they hold.
LoadWithDefaults ==
    /\ pc = "idle"
    /\ now < MaxRuns
    /\ now' = now + 1
    /\ polls' = <<>>
    /\ UNCHANGED <<disk, origin, notified>>
    /\ pc' = "loop"
    /\ outcome' = "running"
    /\ settings' = settings_json
    /\ tracking_log' = log_json
    /\ tracking_updates' = <<>>
    /\ batch' = settings_json.tracking_numbers
    /\ idx' = 1

\* lines 94-108: load settings.json and log.json.  Only IOError is caught:
\* a file that is not JSON ends the run with json's ValueError.
Load ==
    /\ pc = "idle"
    /\ now < MaxRuns
    /\ now' = now + 1
    /\ polls' = <<>>
    /\ UNCHANGED <<disk, origin, notified>>
    /\ IF settings_file = "missing"
       THEN /\ pc' = "done"
            /\ outcome' = "no_settings"
            /\ UNCHANGED memory
       ELSE IF settings_file = "corrupt" \/ log_file = "corrupt"
       THEN /\ pc' = "done"
            /\ outcome' = "crashed"
            /\ UNCHANGED memory
       ELSE /\ pc' = "loop"
            /\ outcome' = "running"
            /\ settings' = settings_json
            /\ tracking_log' = (IF log_file = "missing" THEN <<>> ELSE log_json)
            /\ tracking_updates' = <<>>
            /\ batch' = settings_json.tracking_numbers
            /\ idx' = 1

\* Mutant of LoopList: the loop iterates the list it removes from.
LoopListLive(s, copy) == s.tracking_numbers

\* line 111: the loop iterates the copy settings['tracking_numbers'][:] made
\* when it starts, not the list of settings.
LoopList(s, copy) == copy

\* No snapshot was merged yet.
NoSnapshot == [updates |-> <<>>, delivered |-> FALSE, merged |-> FALSE]

\* What the history keeps of one iteration.
PollRecord(number, r) ==
    [number |-> number, raise |-> r.raise, at |-> r.at,
     updates |-> r.updates, delivered |-> r.delivered,
     finished |-> r.finished /\ r.at # "track_correoschile",
     before |-> WithEntry(tracking_log, number)[number],
     after |-> r.tracking_log[number],
     prior |-> IF number \in DOMAIN origin THEN origin[number] ELSE NoSnapshot,
     autoremove |-> settings.autoremove]

\* lines 111-153: one iteration of the loop.  An exception leaves main: the
\* process ends and nothing it held in memory is written.
Poll ==
    /\ pc = "loop"
    /\ idx <= Len(LoopList(settings, batch))
    /\ \E info \in Snapshots(LoopList(settings, batch)[idx]) :
         LET number == LoopList(settings, batch)[idx]
             r == Iteration(number, info, settings, tracking_log, tracking_updates, now)
         IN /\ polls' = Append(polls, PollRecord(number, r))
            /\ IF r.raise # ""
               THEN /\ pc' = "done"
                    /\ outcome' = "crashed"
                    /\ settings' = NoSettings
                    /\ tracking_log' = <<>>
                    /\ tracking_updates' = <<>>
                    /\ batch' = <<>>
                    /\ idx' = 1
               ELSE /\ settings' = r.settings
                    /\ tracking_log' = r.tracking_log
                    /\ tracking_updates' = r.digest
                    /\ idx' = idx + 1
                    /\ UNCHANGED <<pc, outcome, batch>>
    /\ UNCHANGED <<disk, now, origin, notified>>

\* The snapshots this run merged, per number.
Merged == [n \in {polls[i].number : i \in DOMAIN polls} |->
             LET i == CHOOSE j \in DOMAIN polls : polls[j].number = n
             IN [updates |-> polls[i].updates, delivered |-> polls[i].delivered,
                 merged |-> TRUE]]

\* Mutant of WriteLog: log.json is not written.
WriteLogSkipped ==
    /\ pc = "loop"
    /\ idx > Len(LoopList(settings, batch))
    /\ pc' = "write_settings"
    /\ UNCHANGED <<disk, now, memory, outcome, polls, origin, notified>>

\* Mutant of WriteLog: log.json is written wherever the loop is.
WriteLogEarly ==
    /\ pc = "loop"
    /\ log_json' = tracking_log
    /\ log_file' = "ok"
    /\ origin' = Merged @@ origin
    /\ pc' = "write_settings"
    /\ UNCHANGED <<settings_file, settings_json, now, memory, outcome, polls, notified>>

\* lines 156-157
WriteLog ==
    /\ pc = "loop"
    /\ idx > Len(LoopList(settings, batch))
    /\ log_json' = tracking_log
    /\ log_file' = "ok"
    /\ origin' = Merged @@ origin
    /\ pc' = "write_settings"
    /\ UNCHANGED <<settings_file, settings_json, now, memory, outcome, polls, notified>>

\* lines 159-160
WriteSettings ==
    /\ pc = "write_settings"
    /\ settings_json' = settings
    /\ settings_file' = "ok"
    /\ pc' = "send"
    /\ UNCHANGED <<log_file, log_json, now, memory, outcome, polls, origin, notified>>

\* Mutant of ShouldSend: the alert flag is not looked at.
ShouldSendAnyDigest == DOMAIN tracking_updates # {}

\* line 163: len(tracking_updates) > 0 and settings['alert']
ShouldSend == DOMAIN tracking_updates # {} /\ settings.alert

\* lines 163-164 and 58-90: the digest is mailed; smtplib may raise.
Send ==
    /\ pc = "send"
    /\ pc' = "done"
    /\ IF ShouldSend
       THEN outcome' \in {"sent", "send_failed"}
       ELSE outcome' = "not_sent"
    /\ UNCHANGED <<disk, now, memory, polls, origin, notified>>

\* The timestamps reported so far, with those of the items a digest holds.
NotifiedWith(digest) ==
    [n \in Numbers |->
        notified[n] \cup (IF n \in DOMAIN digest
                          THEN {digest[n][j][1] : j \in DOMAIN digest[n]} ELSE {})]

\* The process ends; what main held in memory is gone.
Exit ==
    /\ pc = "done"
    /\ pc' = "idle"
    /\ outcome' = "none"
    /\ settings' = NoSettings
    /\ tracking_log' = <<>>
    /\ tracking_updates' = <<>>
    /\ batch' = <<>>
    /\ idx' = 1
    /\ polls' = <<>>
    /\ notified' = (IF outcome \in {"sent", "send_failed"} THEN NotifiedWith(tracking_updates) ELSE notified)
    /\ UNCHANGED <<disk, now, origin>>

\* Between two runs the operator edits settings.json: switches autoremove,
\* or adds again a number that was tracked before and is not in the list.
SetAutoremove ==
    /\ pc = "idle"
    /\ settings_file = "ok"
    /\ settings_json' = [settings_json EXCEPT !.autoremove = ~@]
    /\ UNCHANGED <<settings_file, log_file, log_json, pc, now, memory, outcome, polls, origin, notified>>

AddNumber ==
    /\ pc = "idle"
    /\ settings_file = "ok"
    /\ \E n \in Numbers \cap DOMAIN log_json :
         /\ \A i \in DOMAIN settings_json.tracking_numbers :
              settings_json.tracking_numbers[i] # n
         /\ settings_json' = [settings_json EXCEPT !.tracking_numbers = Append(@, n)]
    /\ UNCHANGED <<settings_file, log_file, log_json, pc, now, memory, outcome, polls, origin, notified>>

Next ==
    \/ Load
    \/ Poll
    \/ WriteLog
    \/ WriteSettings
    \/ Send
    \/ Exit
    \/ SetAutoremove
    \/ AddNumber

Spec == Init /\ [][Next]_vars

\* The files an earlier run over parcel A1 alone left behind, started from an
\* empty log: the entry it merged from its snapshot, the list it wrote, and
\* the timestamps of the digest it dispatched.
InitAfterRun ==
    /\ settings_file = "ok"
    /\ log_file = "ok"
    /\ \E ar \in BOOLEAN, al \in BOOLEAN, info \in {x \in LongSnapshots : x.raise = ""} :
         LET s == [tracking_numbers |-> <<"A1">>, autoremove |-> ar, alert |-> al]
             r == Iteration("A1", info, s, <<>>, <<>>, -1)
         IN /\ settings_json = r.settings
            /\ log_json = r.tracking_log
            /\ origin = "A1" :> [updates |-> info.updates, delivered |-> info.delivered,
                                  merged |-> TRUE]
            /\ notified = [n \in Numbers |->
                             IF al /\ n \in DOMAIN r.digest
                             THEN {r.digest[n][j][1] : j \in DOMAIN r.digest[n]} ELSE {}]
    /\ pc = "idle"
    /\ now = 0
    /\ settings = NoSettings
    /\ tracking_log = <<>>
    /\ tracking_updates = <<>>
    /\ batch = <<>>
    /\ idx = 1
    /\ outcome = "none"
    /\ polls = <<>>

SpecAfterRun == InitAfterRun /\ [][Next]_vars

----------------------------------------------------------------------------
\* Properties.

Completed == {"sent", "send_failed", "not_sent"}

\* main's variables hold the run's values: the run is in progress or ended
\* after line 163.
InMemory == pc \in {"loop", "write_settings", "send"}
            \/ (pc = "done" /\ outcome \in Completed)

Range(f) == {f[i] : i \in DOMAIN f}

\* A persisted text that is a timestamp, and the timestamp it is.
IsStamp(s) == s # PyNone /\ s[2] \in Dates
Stamp(s) == s[2]

\* The items the digest holds for a number.
Reported(number) ==
    IF number \in DOMAIN tracking_updates THEN tracking_updates[number] ELSE <<>>

\* The "finished tracking <number>" items of the digest.
SystemItems(number) ==
    IF "System" \in DOMAIN tracking_updates
    THEN {i \in DOMAIN tracking_updates["System"] : tracking_updates["System"][i][2] = number}
    ELSE {}

\* The events of snapshot S with timestamp > W, all of S when W is absent.
Expected(S, W) ==
    {<<S[i][1], S[i][2].status>> : i \in {j \in DOMAIN S : W = PyNone \/ S[j][1] > Stamp(W)}}

SameButLastCheck(a, b) == [a EXCEPT !.last_check = b.last_check] = b

\* C1: once an entry's delivered flag is true, no later poll (empty
\* snapshot, snapshot without the delivered marker, or with it) sets it
\* back to false.
C1_DeliveredNeverReverts ==
    \A i \in DOMAIN polls :
        (polls[i].raise = "" /\ polls[i].before.delivered) => polls[i].after.delivered

\* C2: last_update never decreases from one poll to the next, whatever the
\* snapshot.
C2_LastUpdateNeverDecreases ==
    \A i \in DOMAIN polls :
        (polls[i].raise = "" /\ IsStamp(polls[i].before.last_update))
        => /\ IsStamp(polls[i].after.last_update)
           /\ Stamp(polls[i].after.last_update) >= Stamp(polls[i].before.last_update)

\* C3: a poll whose snapshot is empty changes only last_check: last_update,
\* updates and delivered are as before the poll.
C3_EmptySnapshotOnlyTouchesLastCheck ==
    \A i \in DOMAIN polls :
        (polls[i].raise = "" /\ polls[i].updates = <<>>)
        => SameButLastCheck(polls[i].after, polls[i].before)

\* C4: for a non-empty snapshot S and prior watermark W, the items the poll
\* puts in the digest for the number are exactly the events of S with
\* timestamp > W, or all of S when W is absent, each once.
C4_NewEventsExact ==
    \A i \in DOMAIN polls :
        (InMemory /\ polls[i].raise = "" /\ polls[i].updates # <<>>)
        => LET want == Expected(polls[i].updates, polls[i].before.last_update)
               got == Reported(polls[i].number)
           IN Range(got) = want /\ Len(got) = Cardinality(want)

C4_Witness ==
    \E i \in DOMAIN polls :
        /\ InMemory /\ polls[i].raise = ""
        /\ IsStamp(polls[i].before.last_update)
        /\ \E a, b \in DictKeys(polls[i].updates) :
             a <= Stamp(polls[i].before.last_update) /\ b > Stamp(polls[i].before.last_update)

\* C5: a poll with the same non-empty snapshot as the number's previous poll
\* reports no new event and leaves updates, delivered and last_update as the
\* previous poll left them.
C5_Idempotent ==
    \A i \in DOMAIN polls :
        (/\ InMemory /\ polls[i].raise = "" /\ polls[i].updates # <<>>
         /\ polls[i].prior.merged
         /\ polls[i].prior.updates = polls[i].updates
         /\ polls[i].prior.delivered = polls[i].delivered)
        => /\ Reported(polls[i].number) = <<>>
           /\ SameButLastCheck(polls[i].after, polls[i].before)

C5_Witness ==
    \E i \in DOMAIN polls :
        /\ InMemory /\ polls[i].raise = "" /\ Len(polls[i].updates) > 1
        /\ polls[i].prior.merged
        /\ polls[i].prior.updates = polls[i].updates
        /\ polls[i].prior.delivered = polls[i].delivered
        /\ polls[i].after.last_check # polls[i].before.last_check

\* C6: a failed fetch (the carrier raises, or returns nothing) for one number
\* does not abort the batch: the iteration ends without exception, the
\* number's entry is unchanged except last_check, and the run goes on to
\* write log.json and settings.json.
C6_FetchFailureDoesNotAbort ==
    \A i \in DOMAIN polls :
        (polls[i].at = "track_correoschile"
         \/ (polls[i].raise = "" /\ polls[i].updates = <<>>))
        => /\ polls[i].raise = ""
           /\ SameButLastCheck(polls[i].after, polls[i].before)
           /\ pc = "done" => /\ outcome \in Completed
                             /\ log_json = tracking_log
                             /\ settings_json = settings

\* C7: with autoremove on, a number that goes from not delivered to
\* delivered in a run is, after the run, in neither the list of main nor the
\* list of settings.json, and the digest holds "Finished tracking <number>"
\* exactly once.
C7_DeliveredIsRemovedAndAnnouncedOnce ==
    (pc = "done" /\ outcome \in Completed)
    => \A i \in DOMAIN polls :
          (polls[i].autoremove /\ ~polls[i].before.delivered /\ polls[i].after.delivered)
          => /\ polls[i].number \notin Range(settings.tracking_numbers)
             /\ polls[i].number \notin Range(settings_json.tracking_numbers)
             /\ Cardinality(SystemItems(polls[i].number)) = 1

C7_Witness ==
    /\ pc = "done" /\ outcome \in Completed
    /\ \E i \in DOMAIN polls :
         /\ polls[i].autoremove /\ ~polls[i].before.delivered /\ polls[i].after.delivered
         /\ Len(batch) > 1

\* C8: the "finished tracking" notification and the removal happen only in
\* a poll in which delivered goes from false to true; a poll of a number
\* whose entry was delivered before the poll produces none.
C8_AnnouncedOnlyOnTransition ==
    \A i \in DOMAIN polls :
        (polls[i].raise = "" /\ polls[i].finished) => ~polls[i].before.delivered

\* C9: a persisted last_update that is None or not a timestamp does not end
\* the run: the poll goes on without watermark and reports every event of
\* the snapshot as new.
C9_BadLastUpdateIsFirstPoll ==
    \A i \in DOMAIN polls :
        (/\ polls[i].at # "track_correoschile"
         /\ polls[i].updates # <<>>
         /\ ~IsStamp(polls[i].before.last_update))
        => /\ polls[i].raise = ""
           /\ InMemory => Range(Reported(polls[i].number))
                            = Expected(polls[i].updates, PyNone)

\* C10: when the digest is handed to the notifier, log.json and
\* settings.json already hold the run's result, and they still do after the
\* dispatch, failed or not.
C10_PersistedBeforeDispatch ==
    (pc = "send" \/ (pc = "done" /\ outcome \in {"sent", "send_failed"}))
    => /\ log_file = "ok" /\ log_json = tracking_log
       /\ settings_file = "ok" /\ settings_json = settings
       /\ \A i \in DOMAIN polls : log_json[polls[i].number] = polls[i].after

C10_Witness ==
    /\ pc = "done" /\ outcome = "send_failed"
    /\ \E i \in DOMAIN polls : polls[i].updates # <<>> /\ polls[i].finished

\* The digest holds at least one item.
DigestNonEmpty == \E k \in DOMAIN tracking_updates : tracking_updates[k] # <<>>

\* C11: a run that went through the whole batch hands the digest to the
\* notifier exactly when the digest is non-empty (some poll reported a new
\* event or a finished number) and alert is on; otherwise nothing is
\* dispatched; in both cases log.json and settings.json hold the run's
\* result.
C11_DispatchIffDigestAndAlert ==
    (pc = "done" /\ outcome \in Completed)
    => /\ outcome \in {"sent", "send_failed"} <=> (DigestNonEmpty /\ settings_json.alert)
       /\ DigestNonEmpty <=>
            \E i \in DOMAIN polls :
                \/ polls[i].finished
                \/ Expected(polls[i].updates, polls[i].before.last_update) # {}
       /\ log_file = "ok" /\ log_json = tracking_log
       /\ settings_file = "ok" /\ settings_json = settings

C11_Witness ==
    /\ pc = "done" /\ outcome = "not_sent"
    /\ DigestNonEmpty /\ ~settings_json.alert
    /\ \E i \in DOMAIN polls : polls[i].updates # <<>> /\ log_json[polls[i].number] = polls[i].after

\* C12: while settings.json is missing or unreadable, no step of a run
\* fetches, creates or changes an entry, writes log.json or settings.json, or
\* dispatches: the run ends right after the load.  With settings.json
\* readable and log.json missing, the run starts with an empty log.
C12_NoSettingsNoEffect ==
    [][/\ settings_file # "ok"
          => /\ UNCHANGED <<disk, memory>>
             /\ polls' = <<>>
             /\ pc' \in {"idle", "done"}
             /\ outcome' \in {"none", "no_settings", "crashed"}
       /\ (pc = "idle" /\ pc' # "idle" /\ settings_file = "ok" /\ log_file = "missing")
          => /\ pc' = "loop"
             /\ tracking_log' = <<>>
             /\ UNCHANGED disk]_vars

C12_Witness ==
    /\ pc = "done" /\ outcome = "no_settings"
    /\ settings_file = "missing" /\ log_file = "missing"
    /\ polls = <<>> /\ tracking_log = <<>>

\* The event a snapshot holds for a timestamp.
EventAt(S, t) == S[CHOOSE j \in DOMAIN S : S[j][1] = t][2]

\* C13: a poll never discards an event merged before: the timestamps of the
\* entry after the poll are those before it together with those of the
\* snapshot; an event of the snapshot replaces the one stored under the same
\* timestamp, every other stored event is kept as it was.
C13_MergeKeepsEvents ==
    \A i \in DOMAIN polls :
        polls[i].raise = ""
        => LET old == polls[i].before.updates
               new == polls[i].after.updates
               S == polls[i].updates
           IN /\ DOMAIN old \subseteq DOMAIN new
              /\ DOMAIN new = DOMAIN old \cup {strftime(t) : t \in DictKeys(S)}
              /\ \A key \in DOMAIN new :
                    new[key] = IF Stamp(key) \in DictKeys(S)
                               THEN EventAt(S, Stamp(key)) ELSE old[key]

C13_Witness ==
    \E i \in DOMAIN polls :
        /\ polls[i].raise = ""
        /\ \E a, b \in DOMAIN polls[i].after.updates :
              /\ a \in DOMAIN polls[i].before.updates
              /\ Stamp(a) \notin DictKeys(polls[i].updates)
              /\ b \notin DOMAIN polls[i].before.updates

\* C14: after a poll with a non-empty snapshot, last_update is the latest
\* timestamp of that snapshot, also when the entry holds a later event.
C14_LastUpdateIsSnapshotMax ==
    \A i \in DOMAIN polls :
        (polls[i].raise = "" /\ polls[i].updates # <<>>)
        => /\ IsStamp(polls[i].after.last_update)
           /\ Stamp(polls[i].after.last_update) \in DictKeys(polls[i].updates)
           /\ \A t \in DictKeys(polls[i].updates) : t <= Stamp(polls[i].after.last_update)

C14_Witness ==
    \E i \in DOMAIN polls :
        /\ polls[i].raise = "" /\ polls[i].updates # <<>>
        /\ \E key \in DOMAIN polls[i].after.updates :
              Stamp(key) > Stamp(polls[i].after.last_update)

\* The numbers this run's polls found delivered while autoremove was on.
DeliveredWithAutoremove ==
    {polls[i].number : i \in {j \in DOMAIN polls :
        polls[j].raise = "" /\ polls[j].after.delivered /\ polls[j].autoremove}}

\* A list without the numbers of R, the others in their order.
Without(list, R) ==
    LET Keep(n) == n \notin R IN SelectSeq(list, Keep)

\* C15: the numbers a run takes off the list are exactly those its polls
\* found delivered while autoremove was on; the other numbers of the list the
\* run started with stay, in the same order, in main's list and, once
\* written, in settings.json; every number of the starting list, removed or
\* not, has its entry in the log written by the run.
C15_RemovalOnlyWhenDeliveredAndAutoremove ==
    /\ InMemory => settings.tracking_numbers = Without(batch, DeliveredWithAutoremove)
    /\ (pc = "send" \/ (pc = "done" /\ outcome \in Completed))
       => /\ settings_json.tracking_numbers = Without(batch, DeliveredWithAutoremove)
          /\ \A i \in DOMAIN polls :
                /\ polls[i].number \in DOMAIN log_json
                /\ log_json[polls[i].number] = polls[i].after

C15_Witness ==
    /\ pc = "done" /\ outcome \in Completed
    /\ Len(batch) = 3
    /\ DeliveredWithAutoremove = {batch[2]}
    /\ settings_json.tracking_numbers = <<batch[1], batch[3]>>
    /\ batch[2] \notin Range(settings.tracking_numbers)
    /\ batch[2] \in DOMAIN log_json

\* C16: a step of a run changes log.json or settings.json only when the
\* loop has polled every number of the list the run started with, none of
\* them ending in an exception; so a run that stops inside the loop leaves
\* both files as they were.
C16_AllOrNothing ==
    [][(pc # "idle" /\ disk' # disk)
       => /\ pc \in {"loop", "write_settings"}
          /\ Len(polls) = Len(batch)
          /\ \A i \in DOMAIN polls : polls[i].raise = "" /\ polls[i].number = batch[i]]_vars

C16_Witness ==
    /\ pc = "done" /\ outcome = "crashed"
    /\ Len(polls) > 1
    /\ polls[1].raise = "" /\ polls[1].updates # <<>>
    /\ polls[1].number \notin DOMAIN log_json

\* C17: the loop polls the numbers of the list the run started with one by
\* one in list order, whatever it removes on the way: at every point of the
\* loop the polls made are the first entries of that list, each once, and a
\* run that leaves the loop has polled every entry.
C17_EveryEntryPolledOnceInOrder ==
    InMemory
    => /\ \A i \in DOMAIN polls : i <= Len(batch) /\ polls[i].number = batch[i]
       /\ \A i, j \in DOMAIN polls : i # j => polls[i].number # polls[j].number
       /\ pc = "loop" => Len(polls) = idx - 1
       /\ pc # "loop" => Len(polls) = Len(batch)

C17_Witness ==
    /\ pc = "done" /\ outcome \in Completed
    /\ Len(batch) = 3 /\ Len(polls) = 3
    /\ polls[1].finished /\ polls[2].finished
    /\ settings.tracking_numbers = <<batch[3]>>

\* C18: every timestamp a poll adds to the entry's events, also one below
\* the entry's last_update, is among the items the poll reports for the
\* number.
C18_NoDroppedNotification ==
    \A i \in DOMAIN polls :
        (InMemory /\ polls[i].raise = "")
        => \A key \in DOMAIN polls[i].after.updates \ DOMAIN polls[i].before.updates :
              \E j \in DOMAIN Reported(polls[i].number) :
                  Reported(polls[i].number)[j][1] = Stamp(key)

\* C19: no timestamp that a dispatched digest reported for a number is
\* reported for it again by the digest of a later run, whatever snapshots
\* (empty ones, shorter ones) the polls in between returned.
C19_NoDuplicateNotification ==
    (pc = "done" /\ outcome \in {"sent", "send_failed"})
    => \A n \in Numbers :
          \A j \in DOMAIN Reported(n) : Reported(n)[j][1] \notin notified[n]

\* The entries main holds and those of log.json.
Entries == {tracking_log[n] : n \in DOMAIN tracking_log} \cup {log_json[n] : n \in DOMAIN log_json}

\* C20: an entry that started as a new entry has last_update None exactly
\* when it holds no event, and otherwise last_update is the timestamp of one
\* of its events.  (The entry of a log.json that came with a garbled
\* last_update did not start as a new entry.)
C20_LastUpdateWellFormed ==
    \A e \in Entries :
        e.last_update # Garbled
        => /\ e.last_update = PyNone <=> DOMAIN e.updates = {}
           /\ e.last_update # PyNone => e.last_update \in DOMAIN e.updates

C20_Witness ==
    /\ pc = "idle"
    /\ \E n \in DOMAIN log_json :
         /\ IsStamp(log_json[n].last_update)
         /\ \E key \in DOMAIN log_json[n].updates : Stamp(key) > Stamp(log_json[n].last_update)
    /\ now = MaxRuns

====
